---- MODULE Spec2Model ----
(***************************************************************************)
(* Model of adsharma/mediawiki-sample:                                     *)
(*   chunk_extractor.py          chunk_text, extract_infobox,              *)
(*                               process_article, main                     *)
(*   parallel_chunk_extractor.py run_chunk_extractor, find_parquet_files,  *)
(*                               main                                      *)
(* Several specifications share the module: SpecChunk (the chunker, a pure *)
(* function applied to bounded inputs), SpecFields (the fields of one      *)
(* record's Infobox templates), SpecFiles (discovery, sorting and          *)
(* filtering of the input files), SpecJob (one job unit: the child process *)
(* and the job runner around it) and SpecBatch (the worker pool and the    *)
(* collecting loop).                                                       *)
(***************************************************************************)
EXTENDS Integers, Sequences, FiniteSets, TLC

VARIABLES
    \* chunker
    text, max_bytes, chunks, chunk_pc,
    \* field extraction from one record
    templates, infobox_table, infobox_data, fields_pc,
    \* discovery and filtering
    listing, start_from, max_files, dry_run, all_files, files_pc,
    \* one job unit: the job runner and its child process
    job_unit, job_pc, child_pc, processed, returncode, fault, job_outcome,
    \* the batch: the worker pool and the collecting loop
    n_units, parallelism, next_submit, work_queue, running, results,
    done_queue, received, successful, failed, progress, batch_pc, exit_status

chunkVars == <<text, max_bytes, chunks, chunk_pc>>
fieldVars == <<templates, infobox_table, infobox_data, fields_pc>>
filesVars == <<listing, start_from, max_files, dry_run, all_files, files_pc>>
jobVars == <<job_unit, job_pc, child_pc, processed, returncode, fault, job_outcome>>
poolVars == <<next_submit, work_queue, running, results, done_queue>>
loopVars == <<received, successful, failed, progress, batch_pc, exit_status>>
batchVars == <<n_units, parallelism, poolVars, loopVars>>
vars == <<chunkVars, fieldVars, filesVars, jobVars, batchVars>>

(***************************************************************************)
(* Strings.  A string is a sequence of characters; a character is a        *)
(* one-letter TLA+ string.  "E" stands for a character whose UTF-8         *)
(* encoding takes two bytes (such as U+00E9); the tab is whitespace for    *)
(* str.split() and str.strip(), but not the space of the ". " delimiter.   *)
(***************************************************************************)
TwoByteChars == {"E"}
Whitespace == {" ", "\t"}

\* Bounds of the chunker's inputs.
MaxLen == 5
MaxBytes == 3

Alphabet == {"a", ".", " ", "\t", "E"}

\* len(s.encode("utf-8"))
RECURSIVE encode_len(_)
encode_len(s) ==
    IF s = <<>> THEN 0
    ELSE (IF Head(s) \in TwoByteChars THEN 2 ELSE 1) + encode_len(Tail(s))

\* s[i:] (0-based i), as Python slices
DropFirst(s, n) == SubSeq(s, n + 1, Len(s))

\* The index of the first occurrence of ". " in s, or 0
FindDelim(s) ==
    LET hits == {i \in 1..(Len(s) - 1) : s[i] = "." /\ s[i + 1] = " "}
    IN  IF hits = {} THEN 0 ELSE CHOOSE i \in hits : \A j \in hits : i <= j

\* text.split(". ")
RECURSIVE split_period(_)
split_period(s) ==
    LET i == FindDelim(s)
    IN  IF i = 0 THEN <<s>>
        ELSE <<SubSeq(s, 1, i - 1)>> \o split_period(DropFirst(s, i + 1))

\* s.lstrip()
RECURSIVE lstrip(_)
lstrip(s) ==
    IF s # <<>> /\ Head(s) \in Whitespace THEN lstrip(Tail(s)) ELSE s

\* s.rstrip()
RECURSIVE rstrip(_)
rstrip(s) ==
    IF s # <<>> /\ s[Len(s)] \in Whitespace
    THEN rstrip(SubSeq(s, 1, Len(s) - 1))
    ELSE s

\* A mutant of strip: the buffer is flushed as it is.
strip_none(s) == s

\* s.strip()
strip(s) == rstrip(lstrip(s))

\* The length of the longest whitespace-free prefix of s
RECURSIVE WordLen(_)
WordLen(s) ==
    IF s = <<>> \/ Head(s) \in Whitespace THEN 0 ELSE 1 + WordLen(Tail(s))

\* s.split(): the maximal whitespace-free runs of s, in order
RECURSIVE split_ws(_)
split_ws(s) ==
    LET t == lstrip(s)
        n == WordLen(t)
    IN  IF t = <<>> THEN <<>>
        ELSE <<SubSeq(t, 1, n)>> \o split_ws(DropFirst(t, n))

(***************************************************************************)
(* chunk_text.  The loops carry the pair (chunks, current_chunk).          *)
(***************************************************************************)
\* chunk_extractor.py 42-49: one iteration of the word loop
WordStep(st, word, maxb) ==
    LET test_chunk == st.current_chunk \o word \o <<" ">>
    IN  IF encode_len(test_chunk) <= maxb
        THEN [st EXCEPT !.current_chunk = test_chunk]
        ELSE [chunks |-> IF st.current_chunk # <<>>
                         THEN Append(st.chunks, strip(st.current_chunk))
                         ELSE st.chunks,
              current_chunk |-> word \o <<" ">>]

RECURSIVE WordLoop(_, _, _)
WordLoop(st, words, maxb) ==
    IF words = <<>> THEN st
    ELSE WordLoop(WordStep(st, Head(words), maxb), Tail(words), maxb)

\* chunk_extractor.py 28-30
sentence_with_period(sentence, sentences) ==
    IF sentence # sentences[Len(sentences)]
    THEN sentence \o <<".", " ">>
    ELSE sentence

\* chunk_extractor.py 27-49: one iteration of the sentence loop
SentenceStep(st, sentence, sentences, maxb) ==
    LET swp == sentence_with_period(sentence, sentences)
        test_chunk == st.current_chunk \o swp
    IN  IF encode_len(test_chunk) <= maxb
        THEN [st EXCEPT !.current_chunk = test_chunk]
        ELSE IF st.current_chunk # <<>>
             THEN [chunks |-> Append(st.chunks, strip(st.current_chunk)),
                   current_chunk |-> swp]
             ELSE WordLoop(st, split_ws(sentence), maxb)

RECURSIVE SentenceLoop(_, _, _, _)
SentenceLoop(st, i, sentences, maxb) ==
    IF i > Len(sentences) THEN st
    ELSE SentenceLoop(SentenceStep(st, sentences[i], sentences, maxb),
                      i + 1, sentences, maxb)

\* A mutant of chunk_text: a text that fits is returned trimmed.
chunk_text_trimmed(t, maxb) ==
    IF encode_len(t) <= maxb THEN <<strip(t)>>
    ELSE LET st == SentenceLoop([chunks |-> <<>>, current_chunk |-> <<>>],
                                1, split_period(t), maxb)
         IN  IF st.current_chunk # <<>>
             THEN Append(st.chunks, strip(st.current_chunk))
             ELSE st.chunks

\* chunk_extractor.py 15-54
chunk_text(t, maxb) ==
    IF encode_len(t) <= maxb THEN <<t>>
    ELSE LET st == SentenceLoop([chunks |-> <<>>, current_chunk |-> <<>>],
                                1, split_period(t), maxb)
         IN  IF st.current_chunk # <<>>
             THEN Append(st.chunks, strip(st.current_chunk))
             ELSE st.chunks

(***************************************************************************)
(* SpecChunk: chunk_text applied to every text of at most MaxLen           *)
(* characters with every limit up to MaxBytes, and to the documented       *)
(* example.                                                                *)
(***************************************************************************)
SeqsUpTo(S, n) == UNION {[1..k -> S] : k \in 0..n}

HelloText ==
    <<"H", "e", "l", "l", "o", " ", "w", "o", "r", "l", "d", ".", " ",
      "T", "h", "i", "s", " ", "i", "s", " ", "a", " ", "t", "e", "s", "t", ".">>
\* The documented example: chunk("Hello world. This is a test.", 15)
HelloInput == <<HelloText, 15>>

ChunkInputs ==
    (SeqsUpTo(Alphabet, MaxLen) \X (1..MaxBytes)) \cup {HelloInput}

NoChunks == <<"none">>

ChunkStart ==
    /\ \E inp \in ChunkInputs : text = inp[1] /\ max_bytes = inp[2]
    /\ chunks = NoChunks
    /\ chunk_pc = "ready"

\* The chunker is not in use
ChunkIdle ==
    /\ text = <<>>
    /\ max_bytes = 1
    /\ chunks = NoChunks
    /\ chunk_pc = "idle"

Chunk ==
    /\ chunk_pc = "ready"
    /\ chunks' = chunk_text(text, max_bytes)
    /\ chunk_pc' = "done"
    /\ UNCHANGED <<text, max_bytes, fieldVars, filesVars, jobVars, batchVars>>

(***************************************************************************)
(* Field extraction (chunk_extractor.py 57-137).  A record's markup is     *)
(* given as parsed by mwparserfromhell: the sequence of its templates,     *)
(* each a name and a sequence of parameters (name, value); the values hold *)
(* no markup, so that strip_code leaves them as they are.  infobox_table   *)
(* holds the rows of the table infobox_data that have the record's docid,  *)
(* in insertion order; infobox_data holds the dictionaries process_article *)
(* builds and prints, one for each Infobox template.                       *)
(***************************************************************************)
InfoboxMarker == <<"I", "n", "f", "o", "b", "o", "x">>

\* s.startswith(prefix)
startswith(s, prefix) ==
    Len(s) >= Len(prefix) /\ SubSeq(s, 1, Len(prefix)) = prefix

\* chunk_extractor.py 86-89: the key and the value of one parameter
param_name(param) == strip(param.name)
param_value(param) == strip(param.value)

\* chunk_extractor.py 85-98: one INSERT for each parameter of a template
RECURSIVE InsertParams(_, _)
InsertParams(table, params) ==
    IF params = <<>> THEN table
    ELSE InsertParams(Append(table, [key |-> param_name(Head(params)),
                                     value |-> param_value(Head(params))]),
                      Tail(params))

\* chunk_extractor.py 82-98
RECURSIVE extract_infobox(_, _)
extract_infobox(table, tmpls) ==
    IF tmpls = <<>> THEN table
    ELSE extract_infobox(IF startswith(Head(tmpls).name, InfoboxMarker)
                         THEN InsertParams(table, Head(tmpls).params)
                         ELSE table,
                         Tail(tmpls))

\* chunk_extractor.py 133: infobox_data[param_name] = param_value
DictSet(dict, key, value) ==
    [k \in DOMAIN dict \cup {key} |-> IF k = key THEN value ELSE dict[k]]

\* chunk_extractor.py 126-133: the dictionary of one template
RECURSIVE DictOfParams(_, _)
DictOfParams(dict, params) ==
    IF params = <<>> THEN dict
    ELSE DictOfParams(DictSet(dict, param_name(Head(params)),
                              param_value(Head(params))),
                      Tail(params))

\* chunk_extractor.py 124-137: a new dictionary for each Infobox template
RECURSIVE process_article(_)
process_article(tmpls) ==
    IF tmpls = <<>> THEN <<>>
    ELSE (IF startswith(Head(tmpls).name, InfoboxMarker)
          THEN <<DictOfParams(<<>>, Head(tmpls).params)>>
          ELSE <<>>) \o process_article(Tail(tmpls))

MaxParams == 2

TemplateNames == {InfoboxMarker \o <<" ", "p">>, <<"C", "i", "t", "e">>}
ParamNames == {<<"n">>, <<"n", " ">>, <<"b">>}
ParamValues == {<<"A">>, <<" ", "B">>}
Params == [name : ParamNames, value : ParamValues]
Templates == [name : TemplateNames, params : SeqsUpTo(Params, MaxParams)]

\* The documented example: {{Infobox person|name=Alice|born=1990|name=Bob}}
ExampleRecord ==
    << [name |-> InfoboxMarker \o <<" ", "p", "e", "r", "s", "o", "n">>,
        params |-> << [name |-> <<"n", "a", "m", "e">>,
                       value |-> <<"A", "l", "i", "c", "e">>],
                      [name |-> <<"b", "o", "r", "n">>,
                       value |-> <<"1", "9", "9", "0">>],
                      [name |-> <<"n", "a", "m", "e">>,
                       value |-> <<"B", "o", "b">>] >>] >>

\* The records: one or two templates, and the documented example
Records ==
    {<<t>> : t \in Templates} \cup (Templates \X Templates) \cup {ExampleRecord}

FieldsStart ==
    /\ templates \in Records
    /\ infobox_table = <<>>
    /\ infobox_data = <<>>
    /\ fields_pc = "ready"

\* No record is being processed
FieldsIdle ==
    /\ templates = <<>>
    /\ infobox_table = <<>>
    /\ infobox_data = <<>>
    /\ fields_pc = "idle"

\* chunk_extractor.py 239-240: the record is processed with --extract-infobox
ExtractInfobox ==
    /\ fields_pc = "ready"
    /\ infobox_table' = extract_infobox(infobox_table, templates)
    /\ fields_pc' = "stored"
    /\ UNCHANGED <<templates, infobox_data, chunkVars, filesVars, jobVars, batchVars>>

\* chunk_extractor.py 241-242: the record is processed without the flag
ProcessArticle ==
    /\ fields_pc = "ready"
    /\ infobox_data' = process_article(templates)
    /\ fields_pc' = "printed"
    /\ UNCHANGED <<templates, infobox_table, chunkVars, filesVars, jobVars, batchVars>>

(***************************************************************************)
(* Discovery and filtering (parallel_chunk_extractor.py).  A file          *)
(* wikipedia_en_part_<X>.parquet is modelled by <X>, the part of its name  *)
(* that the glob's * matches, a string as above: its stem is               *)
(* "wikipedia_en_part_" followed by <X>.                                   *)
(***************************************************************************)
\* The digits that occur in PartNames
Digits == {"0", "1", "2", "3"}
DigitVal(c) == CASE c = "0" -> 0 [] c = "1" -> 1 [] c = "2" -> 2 [] c = "3" -> 3

\* The value of a non-empty string of digits
RECURSIVE DecVal(_)
DecVal(ds) ==
    IF ds = <<>> THEN 0
    ELSE 10 * DecVal(SubSeq(ds, 1, Len(ds) - 1)) + DigitVal(ds[Len(ds)])

\* int(s): the value, or ok = FALSE where Python raises ValueError
int_parse(s) ==
    LET t == strip(s)
        signed == t # <<>> /\ t[1] \in {"-", "+"}
        body == IF signed THEN Tail(t) ELSE t
    IN  IF body = <<>> \/ \E i \in 1..Len(body) : body[i] \notin Digits
        THEN [ok |-> FALSE, val |-> 0]
        ELSE [ok |-> TRUE,
              val |-> IF signed /\ t[1] = "-" THEN 0 - DecVal(body) ELSE DecVal(body)]

\* stem.split("_")[-1]: what follows the last "_" of the stem
RECURSIVE last_part(_)
last_part(x) ==
    IF \E i \in 1..Len(x) : x[i] = "_" THEN last_part(Tail(x)) ELSE x

\* A mutant of extract_part_number: the default key sorts last.
extract_part_number_last(filepath) ==
    LET r == int_parse(last_part(filepath))
    IN  IF r.ok THEN r.val ELSE 1000

\* parallel_chunk_extractor.py 99-105
extract_part_number(filepath) ==
    LET r == int_parse(last_part(filepath))
    IN  IF r.ok THEN r.val ELSE 0

\* The name of the file <X>: pattern "wikipedia_en_part_*.parquet"
file_name(x) ==
    <<"w", "i", "k", "i", "p", "e", "d", "i", "a", "_", "e", "n", "_",
      "p", "a", "r", "t", "_">> \o x \o <<".", "p", "a", "r", "q", "u", "e", "t">>

\* Path(name).stem: the name without its last suffix
path_stem(name) ==
    LET dots == {i \in 2..(Len(name) - 1) : name[i] = "."}
    IN  IF dots = {} THEN name
        ELSE SubSeq(name, 1, (CHOOSE i \in dots : \A k \in dots : k <= i) - 1)

InfoboxDbSuffix ==
    <<"_", "i", "n", "f", "o", "b", "o", "x", ".", "d", "u", "c", "k", "d", "b">>

\* A mutant of db_filename: the storage file is named by the part number.
db_filename_by_part(x) ==
    <<"p", "a", "r", "t", "_", extract_part_number(x)>> \o InfoboxDbSuffix

\* chunk_extractor.py 60-61: the storage file of the input file <X>, in the
\* working directory that all units of a batch share
db_filename(x) == path_stem(file_name(x)) \o InfoboxDbSuffix

\* list.sort(key=extract_part_number) is stable: x goes after every element
\* whose key is not greater
RECURSIVE InsertByKey(_, _)
InsertByKey(sorted, x) ==
    IF sorted = <<>> THEN <<x>>
    ELSE IF extract_part_number(x) < extract_part_number(Head(sorted))
         THEN <<x>> \o sorted
         ELSE <<Head(sorted)>> \o InsertByKey(Tail(sorted), x)

RECURSIVE sort_by_part_number(_)
sort_by_part_number(fs) ==
    IF fs = <<>> THEN <<>>
    ELSE InsertByKey(sort_by_part_number(SubSeq(fs, 1, Len(fs) - 1)), fs[Len(fs)])

\* parallel_chunk_extractor.py 85-109; raised = TRUE where it raises
\* FileNotFoundError (no file matches the pattern)
find_parquet_files(parquet_files) ==
    IF parquet_files = <<>>
    THEN [raised |-> TRUE, files |-> <<>>]
    ELSE [raised |-> FALSE, files |-> sort_by_part_number(parquet_files)]

\* parallel_chunk_extractor.py 176-183: the test of one file
KeptByStartFrom(file_path, from) ==
    LET r == int_parse(last_part(file_path))
    IN  r.ok /\ r.val >= from

\* parallel_chunk_extractor.py 173-184
filter_start_from(fs, from) ==
    IF from > 1
    THEN SelectSeq(fs, LAMBDA f : KeptByStartFrom(f, from))
    ELSE fs

\* args.max_files: None when --max-files is not given
NoLimit == [given |-> FALSE, n |-> 0]

\* lst[:n] as Python slices it
slice_to(lst, n) ==
    IF n >= 0
    THEN SubSeq(lst, 1, IF n < Len(lst) THEN n ELSE Len(lst))
    ELSE SubSeq(lst, 1, Len(lst) + n)

\* parallel_chunk_extractor.py 187-188
limit_max_files(fs, limit) ==
    IF limit.given /\ limit.n # 0 THEN slice_to(fs, limit.n) ELSE fs

\* Bounds of the directory and of the command line.
MaxDirFiles == 3
MaxStartFrom == 3
MaxLimit == 2

\* The names a directory may hold
PartNames ==
    { <<"1">>, <<"2">>, <<"1", "0">>, <<"0">>, <<"-", "1">>, <<"x">>,
      <<"x", "_", "3">> }

\* What glob may return: distinct names in any order
Listings ==
    {l \in SeqsUpTo(PartNames, MaxDirFiles) :
        \A i, j \in 1..Len(l) : i # j => l[i] # l[j]}

FilesStart ==
    /\ listing \in Listings
    /\ start_from \in 0..MaxStartFrom
    /\ max_files \in {NoLimit} \cup {[given |-> TRUE, n |-> k] : k \in -1..MaxLimit}
    /\ dry_run \in BOOLEAN
    /\ all_files = <<>>
    /\ files_pc = "discovering"

\* Discovery is not in use
FilesIdle ==
    /\ listing = <<>>
    /\ start_from = 1
    /\ max_files = NoLimit
    /\ dry_run = FALSE
    /\ all_files = <<>>
    /\ files_pc = "idle"

\* parallel_chunk_extractor.py 168-170, and 287-289 when it raises
Discover ==
    /\ files_pc = "discovering"
    /\ LET found == find_parquet_files(listing)
       IN  /\ all_files' = found.files
           /\ files_pc' = IF found.raised THEN "exit_1" ELSE "filtering"
    /\ UNCHANGED <<listing, start_from, max_files, dry_run, chunkVars, fieldVars, jobVars, batchVars>>

\* parallel_chunk_extractor.py 172-184
FilterStartFrom ==
    /\ files_pc = "filtering"
    /\ all_files' = filter_start_from(all_files, start_from)
    /\ files_pc' = "limiting"
    /\ UNCHANGED <<listing, start_from, max_files, dry_run, chunkVars, fieldVars, jobVars, batchVars>>

\* parallel_chunk_extractor.py 186-218
LimitMaxFiles ==
    /\ files_pc = "limiting"
    /\ all_files' = limit_max_files(all_files, max_files)
    /\ files_pc' = IF dry_run THEN "dry_run_listed"
                   ELSE IF all_files' = <<>> THEN "no_files"
                   ELSE "dispatching"
    /\ UNCHANGED <<listing, start_from, max_files, dry_run, chunkVars, fieldVars, jobVars, batchVars>>

(***************************************************************************)
(* One job unit.  run_chunk_extractor starts chunk_extractor.py as a child *)
(* process and turns what it observes of it (an exit code, the timeout, an *)
(* exception of its own) into the outcome (input_file, success, message).  *)
(* job_unit holds the unit and what the child will meet: input is "ok",    *)
(* "missing" or "malformed", records is the number of rows the query       *)
(* returns.  fault records how the processing of the file ended.           *)
(***************************************************************************)
MaxRecords == 2

JobUnits ==
    [input : {"ok", "missing", "malformed"},
     records : 0..MaxRecords,
     extract_infobox : BOOLEAN,
     extract_link_graph : BOOLEAN]

NoOutcome == [returned |-> FALSE, success |-> FALSE, msg |-> ""]

\* parallel_chunk_extractor.py 60-67
ExitOutcome(rc) ==
    IF rc = 0
    THEN [returned |-> TRUE, success |-> TRUE, msg |-> ""]
    ELSE [returned |-> TRUE, success |-> FALSE, msg |-> "Exit code"]

\* parallel_chunk_extractor.py 69-70
TimeoutOutcome ==
    [returned |-> TRUE, success |-> FALSE, msg |-> "Timeout after 5 minutes"]

\* parallel_chunk_extractor.py 71-72
ExceptionOutcome == [returned |-> TRUE, success |-> FALSE, msg |-> "str(e)"]

\* The exit codes of the child: 0, 1 (an uncaught exception), 2 (argparse)
ExitCodes == {0, 1, 2}

\* Every outcome run_chunk_extractor can return
JobOutcomes ==
    {ExitOutcome(rc) : rc \in ExitCodes} \cup {TimeoutOutcome, ExceptionOutcome}

JobStart ==
    /\ job_unit \in JobUnits
    /\ job_pc = "calling"
    /\ child_pc = "not_started"
    /\ processed = 0
    /\ returncode = 0
    /\ fault = "none"
    /\ job_outcome = NoOutcome

\* The job runner is not in use
JobIdle ==
    /\ job_unit = [input |-> "ok", records |-> 0,
                   extract_infobox |-> FALSE, extract_link_graph |-> FALSE]
    /\ job_pc = "idle"
    /\ child_pc = "not_started"
    /\ processed = 0
    /\ returncode = 0
    /\ fault = "none"
    /\ job_outcome = NoOutcome

ChildExits(rc, why) ==
    /\ child_pc' = "exited"
    /\ returncode' = rc
    /\ fault' = why

\* parallel_chunk_extractor.py 36-58: the child is started
Spawn ==
    /\ job_pc = "calling"
    /\ job_pc' = "waiting"
    /\ child_pc' = "importing"
    /\ UNCHANGED <<job_unit, processed, returncode, fault, job_outcome,
                   chunkVars, fieldVars, filesVars, batchVars>>

\* parallel_chunk_extractor.py 48, 52-58 and 71-72: os.makedirs or
\* subprocess.run raises (no interpreter, no working directory)
SpawnFails ==
    /\ job_pc = "calling"
    /\ job_pc' = "returned"
    /\ fault' = "spawn"
    /\ job_outcome' = ExceptionOutcome
    /\ UNCHANGED <<job_unit, child_pc, processed, returncode, chunkVars, fieldVars, filesVars, batchVars>>

\* chunk_extractor.py 7-12: an import that fails ends the child with 1
ChildImport ==
    /\ child_pc = "importing"
    /\ \/ child_pc' = "parsing_args" /\ UNCHANGED <<returncode, fault>>
       \/ ChildExits(1, "import")
    /\ UNCHANGED <<job_unit, job_pc, processed, job_outcome, chunkVars, fieldVars, filesVars, batchVars>>

\* chunk_extractor.py 178-202: argparse exits with 2 on --extract-link-graph,
\* an option the child does not define
ChildParseArgs ==
    /\ child_pc = "parsing_args"
    /\ IF job_unit.extract_link_graph
       THEN ChildExits(2, "usage")
       ELSE child_pc' = "querying" /\ UNCHANGED <<returncode, fault>>
    /\ UNCHANGED <<job_unit, job_pc, processed, job_outcome, chunkVars, fieldVars, filesVars, batchVars>>

\* chunk_extractor.py 208-229 and 245-250: the query; an exception is
\* caught and printed, and main returns
ChildQuery ==
    /\ child_pc = "querying"
    /\ CASE job_unit.input = "missing" -> ChildExits(0, "file_not_found")
         [] job_unit.input = "malformed" -> ChildExits(0, "malformed")
         [] OTHER ->
              IF job_unit.records = 0
              THEN ChildExits(0, "none")
              ELSE child_pc' = "processing" /\ UNCHANGED <<returncode, fault>>
    /\ UNCHANGED <<job_unit, job_pc, processed, job_outcome, chunkVars, fieldVars, filesVars, batchVars>>

\* chunk_extractor.py 232-250: one row; an exception of extract_infobox (a
\* storage write) or of process_article is caught and printed, and main
\* returns
ChildProcessRecord ==
    /\ child_pc = "processing"
    /\ \/ /\ processed' = processed + 1
          /\ IF processed + 1 = job_unit.records
             THEN ChildExits(0, "none")
             ELSE UNCHANGED <<child_pc, returncode, fault>>
       \/ /\ ChildExits(0, IF job_unit.extract_infobox
                           THEN "storage_write" ELSE "record")
          /\ UNCHANGED processed
    /\ UNCHANGED <<job_unit, job_pc, job_outcome, chunkVars, fieldVars, filesVars, batchVars>>

ChildRunning == child_pc \in {"importing", "parsing_args", "querying", "processing"}

\* parallel_chunk_extractor.py 56 and 69-70: the child outlives the timeout
\* and is killed
JobTimeout ==
    /\ job_pc = "waiting"
    /\ ChildRunning
    /\ child_pc' = "killed"
    /\ fault' = "timeout"
    /\ job_pc' = "returned"
    /\ job_outcome' = TimeoutOutcome
    /\ UNCHANGED <<job_unit, processed, returncode, chunkVars, fieldVars, filesVars, batchVars>>

\* parallel_chunk_extractor.py 60-67
JobReturn ==
    /\ job_pc = "waiting"
    /\ child_pc = "exited"
    /\ job_pc' = "returned"
    /\ job_outcome' = ExitOutcome(returncode)
    /\ UNCHANGED <<job_unit, child_pc, processed, returncode, fault,
                   chunkVars, fieldVars, filesVars, batchVars>>

(***************************************************************************)
(* The batch (parallel_chunk_extractor.py main, 220-289).  The units are   *)
(* the positions 1..n_units of the filtered list all_files.  The executor  *)
(* holds the submitted units in work_queue until one of its parallelism    *)
(* workers takes the first; a worker's call of run_chunk_extractor ends    *)
(* with one of JobOutcomes, kept in results until as_completed yields the  *)
(* future to the collecting loop: first the futures that were done when    *)
(* as_completed was called, in any order, then the others in the order in  *)
(* which they complete (done_queue).                                       *)
(***************************************************************************)
ProgressEvery == 50

\* Bounds of the batch.
MaxUnits == 3
MaxParallelism == 2
MaxUncollected == 2
MaxPending == 3
MaxElapsed == 2

\* (number of units, parallelism): the small batches, and a batch long
\* enough to pass a progress checkpoint
BatchShapes ==
    ((1..MaxUnits) \X (1..MaxParallelism)) \cup {<<ProgressEvery + 1, 1>>}

\* time.time() - start_time, in clock ticks: the wall clock may stand still
\* or be set back between two readings
Elapsed == -1..MaxElapsed

Units == 1..n_units

NoProgress == [shown |-> FALSE, at |-> 0, elapsed |-> 0, raised |-> FALSE,
               eta_num |-> 0, eta_den |-> 1]

NotExited == [code |-> 0, cause |-> "running"]

BatchStart ==
    /\ \E shape \in BatchShapes : n_units = shape[1] /\ parallelism = shape[2]
    /\ next_submit = 1
    /\ work_queue = <<>>
    /\ running = {}
    /\ results = [u \in Units |-> NoOutcome]
    /\ done_queue = <<>>
    /\ received = [u \in Units |-> 0]
    /\ successful = 0
    /\ failed = 0
    /\ progress = NoProgress
    /\ batch_pc = "dispatching"
    /\ exit_status = NotExited

\* The batch is not in use
BatchIdle ==
    /\ n_units = 0
    /\ parallelism = 1
    /\ next_submit = 1
    /\ work_queue = <<>>
    /\ running = {}
    /\ results = <<>>
    /\ done_queue = <<>>
    /\ received = <<>>
    /\ successful = 0
    /\ failed = 0
    /\ progress = NoProgress
    /\ batch_pc = "idle"
    /\ exit_status = NotExited

\* The futures that are done and not yet yielded by as_completed
Uncollected == {u \in Units : results[u].returned /\ received[u] = 0}

\* Those of them that were done when as_completed was called
DoneEarly == {u \in Uncollected : \A i \in 1..Len(done_queue) : done_queue[i] # u}

\* The futures as_completed may yield next
NextYield ==
    IF DoneEarly # {} THEN DoneEarly
    ELSE IF done_queue # <<>> THEN {Head(done_queue)}
    ELSE {}

\* parallel_chunk_extractor.py 229-239: executor.submit for the next file
\* of all_files
Submit ==
    /\ batch_pc = "dispatching"
    /\ next_submit <= n_units
    /\ work_queue' = Append(work_queue, next_submit)
    /\ next_submit' = next_submit + 1
    /\ batch_pc' = IF next_submit = n_units THEN "collecting" ELSE "dispatching"
    /\ UNCHANGED <<n_units, parallelism, running, results, done_queue, received,
                   successful, failed, progress, exit_status,
                   chunkVars, fieldVars, filesVars, jobVars>>

\* A mutant of StartUnit: the executor starts a worker for every unit.
StartUnitUnbounded ==
    /\ batch_pc \in {"dispatching", "collecting", "shutdown", "interrupted"}
    /\ work_queue # <<>>
    /\ running' = running \cup {Head(work_queue)}
    /\ work_queue' = Tail(work_queue)
    /\ UNCHANGED <<n_units, parallelism, next_submit, results, done_queue,
                   loopVars, chunkVars, fieldVars, filesVars, jobVars>>

\* ProcessPoolExecutor(max_workers=args.parallelism): a free worker takes
\* the first unit of the queue
StartUnit ==
    /\ batch_pc \in {"dispatching", "collecting", "shutdown", "interrupted"}
    /\ work_queue # <<>>
    /\ Cardinality(running) < parallelism
    /\ running' = running \cup {Head(work_queue)}
    /\ work_queue' = Tail(work_queue)
    /\ UNCHANGED <<n_units, parallelism, next_submit, results, done_queue,
                   loopVars, chunkVars, fieldVars, filesVars, jobVars>>

\* parallel_chunk_extractor.py 35-72: run_chunk_extractor returns in a
\* worker.  Once the loop has been left no one reads the result.
FinishUnit ==
    /\ batch_pc \in {"dispatching", "collecting", "shutdown", "interrupted"}
    /\ \E u \in running :
        /\ running' = running \ {u}
        /\ IF batch_pc \in {"shutdown", "interrupted"}
           THEN UNCHANGED <<results, done_queue>>
           ELSE /\ Cardinality(Uncollected) < MaxUncollected
                /\ \E outcome \in JobOutcomes :
                      results' = [results EXCEPT ![u] = outcome]
                /\ done_queue' = IF batch_pc = "collecting"
                                 THEN Append(done_queue, u)
                                 ELSE done_queue
    /\ UNCHANGED <<n_units, parallelism, next_submit, work_queue, loopVars,
                   chunkVars, fieldVars, filesVars, jobVars>>

\* A mutant of Counted: a failed unit is not counted.
CountedSuccessOnly(counters, success) ==
    IF success
    THEN [counters EXCEPT !.successful = @ + 1]
    ELSE counters

\* A mutant of Counted: a failed unit is counted twice.
CountedTwice(counters, success) ==
    IF success
    THEN [counters EXCEPT !.successful = @ + 1]
    ELSE [counters EXCEPT !.failed = @ + 2]

\* parallel_chunk_extractor.py 246-253
Counted(counters, success) ==
    IF success
    THEN [counters EXCEPT !.successful = @ + 1]
    ELSE [counters EXCEPT !.failed = @ + 1]

\* parallel_chunk_extractor.py 257-264: the progress line after `done`
\* completions of `total`.  rate = done / elapsed raises ZeroDivisionError
\* when elapsed is 0; eta = remaining / rate is the fraction
\* eta_num / eta_den.
ProgressLine(done, total, elapsed) ==
    IF elapsed = 0
    THEN [shown |-> TRUE, at |-> done, elapsed |-> elapsed, raised |-> TRUE,
          eta_num |-> 0, eta_den |-> 1]
    ELSE IF elapsed > 0
         THEN [shown |-> TRUE, at |-> done, elapsed |-> elapsed, raised |-> FALSE,
               eta_num |-> (total - done) * elapsed, eta_den |-> done]
         ELSE [shown |-> TRUE, at |-> done, elapsed |-> elapsed, raised |-> FALSE,
               eta_num |-> 0, eta_den |-> 1]

\* parallel_chunk_extractor.py 242-264: one iteration of the collecting
\* loop, for a future as_completed yields; the loop ends after the last one
Collect ==
    /\ batch_pc = "collecting"
    /\ \E u \in NextYield :
        LET c == Counted([successful |-> successful, failed |-> failed],
                         results[u].success)
            done == c.successful + c.failed
        IN  /\ received' = [received EXCEPT ![u] = @ + 1]
            /\ results' = [results EXCEPT ![u] = NoOutcome]
            /\ done_queue' = IF u \in DoneEarly THEN done_queue ELSE Tail(done_queue)
            /\ successful' = c.successful
            /\ failed' = c.failed
            /\ IF done % ProgressEvery = 0
               THEN \E elapsed \in Elapsed :
                      /\ progress' = ProgressLine(done, n_units, elapsed)
                      /\ batch_pc' = IF progress'.raised THEN "shutdown"
                                     ELSE IF \A v \in Units : received'[v] > 0
                                          THEN "summary" ELSE "collecting"
               ELSE /\ UNCHANGED progress
                    /\ batch_pc' = IF \A v \in Units : received'[v] > 0
                                   THEN "summary" ELSE "collecting"
    /\ UNCHANGED <<n_units, parallelism, next_submit, work_queue, running,
                   exit_status, chunkVars, fieldVars, filesVars, jobVars>>

\* parallel_chunk_extractor.py 228 and 287-289: an exception leaves the
\* with block, whose exit waits for the units still queued or running; then
\* it is caught and the process exits with 1
ExitAfterError ==
    /\ batch_pc = "shutdown"
    /\ work_queue = <<>>
    /\ running = {}
    /\ batch_pc' = "exited"
    /\ exit_status' = [code |-> 1, cause |-> "progress_error"]
    /\ UNCHANGED <<n_units, parallelism, poolVars, received, successful, failed,
                   progress, chunkVars, fieldVars, filesVars, jobVars>>

\* The units the executor still holds, queued or running
Pending == Len(work_queue) + Cardinality(running)

\* parallel_chunk_extractor.py 228-264: KeyboardInterrupt is raised in the
\* main process while it submits or collects, and leaves the with block,
\* whose exit is executor.shutdown(wait=True): the units already submitted
\* are not cancelled.  Interrupts are followed up from the states in which
\* the executor holds at most MaxPending units.
Interrupt ==
    /\ batch_pc \in {"dispatching", "collecting"}
    /\ Pending <= MaxPending
    /\ batch_pc' = "interrupted"
    /\ UNCHANGED <<n_units, parallelism, poolVars, received, successful, failed,
                   progress, exit_status, chunkVars, fieldVars, filesVars, jobVars>>

\* parallel_chunk_extractor.py 284-286: the shutdown has returned,
\* except KeyboardInterrupt, sys.exit(1)
ExitAfterInterrupt ==
    /\ batch_pc = "interrupted"
    /\ work_queue = <<>>
    /\ running = {}
    /\ batch_pc' = "exited"
    /\ exit_status' = [code |-> 1, cause |-> "interrupt"]
    /\ UNCHANGED <<n_units, parallelism, poolVars, received, successful, failed,
                   progress, chunkVars, fieldVars, filesVars, jobVars>>

\* parallel_chunk_extractor.py 266-289: the summary.  Its average rate
\* len(all_files) / elapsed_time raises ZeroDivisionError when the elapsed
\* time is 0, which is caught at 287 and exits with 1.
summary_exit(nfailed, elapsed_time) ==
    IF elapsed_time = 0 THEN [code |-> 1, cause |-> "summary_error"]
    ELSE IF nfailed > 0 THEN [code |-> 1, cause |-> "failed_units"]
    ELSE [code |-> 0, cause |-> "all_ok"]

Summary ==
    /\ batch_pc = "summary"
    /\ \E elapsed_time \in Elapsed :
          exit_status' = summary_exit(failed, elapsed_time)
    /\ batch_pc' = "exited"
    /\ UNCHANGED <<n_units, parallelism, poolVars, received, successful, failed,
                   progress, chunkVars, fieldVars, filesVars, jobVars>>

(***************************************************************************)
(* The specifications.                                                     *)
(***************************************************************************)
InitChunk == ChunkStart /\ FieldsIdle /\ FilesIdle /\ JobIdle /\ BatchIdle
NextChunk == Chunk
SpecChunk == InitChunk /\ [][NextChunk]_vars

InitFields == FieldsStart /\ ChunkIdle /\ FilesIdle /\ JobIdle /\ BatchIdle
NextFields == ExtractInfobox \/ ProcessArticle
SpecFields == InitFields /\ [][NextFields]_vars

InitFiles == FilesStart /\ ChunkIdle /\ FieldsIdle /\ JobIdle /\ BatchIdle
NextFiles == Discover \/ FilterStartFrom \/ LimitMaxFiles
SpecFiles == InitFiles /\ [][NextFiles]_vars

InitJob == JobStart /\ ChunkIdle /\ FieldsIdle /\ FilesIdle /\ BatchIdle
NextJob ==
    \/ Spawn
    \/ SpawnFails
    \/ ChildImport
    \/ ChildParseArgs
    \/ ChildQuery
    \/ ChildProcessRecord
    \/ JobTimeout
    \/ JobReturn
SpecJob == InitJob /\ [][NextJob]_vars

InitBatch == BatchStart /\ ChunkIdle /\ FieldsIdle /\ FilesIdle /\ JobIdle
NextBatch ==
    \/ Submit
    \/ StartUnit
    \/ FinishUnit
    \/ Collect
    \/ ExitAfterError
    \/ Summary
    \/ Interrupt
    \/ ExitAfterInterrupt
SpecBatch == InitBatch /\ [][NextBatch]_vars

\* The batch without an external interrupt, the main process and the
\* workers being scheduled fairly: the main process goes on submitting,
\* collecting and exiting, a free worker takes a queued unit, and a running
\* unit returns (at the latest by its timeout).
NextUninterrupted ==
    \/ Submit
    \/ StartUnit
    \/ FinishUnit
    \/ Collect
    \/ ExitAfterError
    \/ Summary
SpecBatchFair ==
    /\ InitBatch
    /\ [][NextUninterrupted]_vars
    /\ WF_vars(Submit)
    /\ WF_vars(StartUnit)
    /\ WF_vars(FinishUnit)
    /\ WF_vars(Collect)
    /\ WF_vars(ExitAfterError)
    /\ WF_vars(Summary)

(***************************************************************************)
(* Claims about the chunker (SpecChunk).                                   *)
(***************************************************************************)
HasWhitespace(s) == \E i \in 1..Len(s) : s[i] \in Whitespace

\* The whitespace-split words of every chunk, in chunk order
RECURSIVE WordsOfChunks(_)
WordsOfChunks(cs) ==
    IF cs = <<>> THEN <<>> ELSE split_ws(Head(cs)) \o WordsOfChunks(Tail(cs))

ChunkDone == chunk_pc = "done"

\* C1: every chunk returned by chunk_text(text, max_bytes) has encoded
\* length <= max_bytes, or is a single whitespace-free token longer than
\* max_bytes; no chunk that contains whitespace is longer than max_bytes.
C1_ChunkBound ==
    ChunkDone =>
        \A i \in 1..Len(chunks) :
            \/ encode_len(chunks[i]) <= max_bytes
            \/ ~HasWhitespace(chunks[i])

\* C7: the whitespace-split words of the chunks, concatenated in chunk
\* order, are exactly the whitespace-split words of the text.
C7_WordsPreserved ==
    ChunkDone => WordsOfChunks(chunks) = split_ws(text)

\* C8: every chunk returned by chunk_text is non-empty after trimming.
C8_ChunksNonEmpty ==
    ChunkDone => \A i \in 1..Len(chunks) : strip(chunks[i]) # <<>>

HelloDone == ChunkDone /\ text = HelloText /\ max_bytes = HelloInput[2]

\* C9 as stated: chunk("Hello world. This is a test.", 15) returns
\* ["Hello world. ", "This is a test."], the first chunk keeping its
\* trailing space (13 bytes).
C9_HelloTrailingSpace ==
    HelloDone =>
        chunks = << <<"H", "e", "l", "l", "o", " ", "w", "o", "r", "l", "d", ".", " ">>,
                    <<"T", "h", "i", "s", " ", "i", "s", " ", "a", " ", "t", "e", "s", "t", ".">> >>

\* C9 as amended: chunk("Hello world. This is a test.", 15) returns
\* ["Hello world.", "This is a test."]: the first chunk is flushed trimmed,
\* 12 bytes long, without the trailing space.
C9_HelloTrimmed ==
    HelloDone =>
        /\ chunks = << <<"H", "e", "l", "l", "o", " ", "w", "o", "r", "l", "d", ".">>,
                       <<"T", "h", "i", "s", " ", "i", "s", " ", "a", " ", "t", "e", "s", "t", ".">> >>
        /\ encode_len(chunks[1]) = 12

C9_Witness == HelloDone /\ Len(chunks) = 2

\* C13: every whitespace-delimited word of the text that is longer than
\* max_bytes is emitted as a chunk consisting of that word alone, unchanged
\* and not split.
C13_LongWordAlone ==
    ChunkDone =>
        \A w \in 1..Len(split_ws(text)) :
            encode_len(split_ws(text)[w]) > max_bytes =>
                \E i \in 1..Len(chunks) : chunks[i] = split_ws(text)[w]

\* C14: a text whose encoded length is at most max_bytes is returned as the
\* one chunk [text], unchanged: not trimmed and not split.
C14_ShortTextUnchanged ==
    (ChunkDone /\ encode_len(text) <= max_bytes) => chunks = <<text>>

\* A short text with whitespace at both ends and a sentence delimiter
C14_Witness ==
    /\ ChunkDone
    /\ encode_len(text) <= max_bytes
    /\ text = <<" ", ".", " ">>
    /\ chunks = << <<" ", ".", " ">> >>

\* C16: the delimiter ". " is reattached to every sentence candidate except
\* the one in last position, also when an earlier candidate is textually
\* equal to the last one.
C16_DelimiterByPosition ==
    (ChunkDone /\ encode_len(text) > max_bytes) =>
        LET sentences == split_period(text)
        IN  \A i \in 1..Len(sentences) :
                sentence_with_period(sentences[i], sentences) =
                    IF i < Len(sentences)
                    THEN sentences[i] \o <<".", " ">>
                    ELSE sentences[i]

\* C18: in the word-level fallback a word is added to the buffer whenever
\* the buffer's words joined with it by single spaces fit in max_bytes, so
\* a chunk is flushed only when the next word would not fit: for a text
\* without sentence delimiter, every chunk but the last, joined by one
\* space with the first word of the next chunk, is longer than max_bytes.
C18_FlushOnlyWhenFull ==
    (ChunkDone /\ encode_len(text) > max_bytes /\ FindDelim(text) = 0) =>
        \A i \in 1..(Len(chunks) - 1) :
            encode_len(chunks[i] \o <<" ">> \o Head(split_ws(chunks[i + 1])))
                > max_bytes

(***************************************************************************)
(* Claims about field extraction (SpecFields).                             *)
(***************************************************************************)
\* The parameters of the record's Infobox templates, in record order
RECURSIVE InfoboxParams(_)
InfoboxParams(tmpls) ==
    IF tmpls = <<>> THEN <<>>
    ELSE (IF startswith(Head(tmpls).name, InfoboxMarker)
          THEN Head(tmpls).params ELSE <<>>) \o InfoboxParams(Tail(tmpls))

Occurrences(key) ==
    {i \in 1..Len(InfoboxParams(templates)) :
        param_name(InfoboxParams(templates)[i]) = key}

LastOccurrence(key) ==
    CHOOSE i \in Occurrences(key) : \A j \in Occurrences(key) : j <= i

RowsOf(key) == {i \in 1..Len(infobox_table) : infobox_table[i].key = key}

FieldsStored == fields_pc = "stored"

\* C12: after field extraction of one record, the stored fields hold for
\* each key of the record's Infobox parameters exactly one row, whose value
\* is that of the key's last occurrence in the record, and no other row.
C12_LastWriteWins ==
    FieldsStored =>
        /\ \A i \in 1..Len(InfoboxParams(templates)) :
              LET key == param_name(InfoboxParams(templates)[i])
              IN  /\ Cardinality(RowsOf(key)) = 1
                  /\ \A r \in RowsOf(key) :
                        infobox_table[r].value =
                            param_value(InfoboxParams(templates)[LastOccurrence(key)])
        /\ \A r \in 1..Len(infobox_table) : Occurrences(infobox_table[r].key) # {}

(***************************************************************************)
(* Claims about discovery and filtering (SpecFiles).                       *)
(***************************************************************************)
Parses(f) == int_parse(last_part(f)).ok
PartNumber(f) == int_parse(last_part(f)).val

\* The filtered list is handed to dispatch
FilesSettled == files_pc = "dispatching"

FirstN(lst, n) == SubSeq(lst, 1, IF n < Len(lst) THEN n ELSE Len(lst))

\* The list C5 describes, for names that all parse
ClaimedDispatch ==
    LET kept == SelectSeq(find_parquet_files(listing).files,
                          LAMBDA f : PartNumber(f) >= start_from)
    IN  IF max_files.given THEN FirstN(kept, max_files.n) ELSE kept

\* C5: the list handed to dispatch is the discovered units in ascending
\* part-number order, those with a part number below start_from removed,
\* then truncated to its first max_files elements, for every start_from and
\* every max_files >= 0.
C5_FilterThenLimit ==
    (/\ FilesSettled
     /\ \A i \in 1..Len(listing) : Parses(listing[i])
     /\ max_files.given => max_files.n >= 0)
        => all_files = ClaimedDispatch

Discovered == files_pc = "filtering"

\* C6 as stated: in the list find_parquet_files returns, every file whose
\* name does not end in an integer part number comes after every file whose
\* part number parses.
C6_UnparsedLast ==
    Discovered =>
        \A i, j \in 1..Len(all_files) :
            (~Parses(all_files[i]) /\ Parses(all_files[j])) => j < i

\* C6 as amended: a file whose name does not end in an integer part number
\* is sorted with the default key 0: in the returned list it comes before
\* every file whose part number is greater than 0 and after every file whose
\* part number is negative; the list holds the files found, and only an
\* empty directory, never such a name, is fatal.
C6_UnparsedAtZero ==
    /\ files_pc = "exit_1" => listing = <<>>
    /\ Discovered =>
        /\ Len(all_files) = Len(listing)
        /\ \A k \in 1..Len(listing) : \E i \in 1..Len(all_files) : all_files[i] = listing[k]
        /\ \A i, j \in 1..Len(all_files) :
            (~Parses(all_files[i]) /\ Parses(all_files[j])) =>
                /\ PartNumber(all_files[j]) > 0 => i < j
                /\ PartNumber(all_files[j]) < 0 => j < i

C6_Witness ==
    /\ Discovered
    /\ \E i, j \in 1..Len(all_files) :
        /\ i < j
        /\ ~Parses(all_files[i])
        /\ Parses(all_files[j]) /\ PartNumber(all_files[j]) > 0
    /\ \E i, j \in 1..Len(listing) :
        i < j /\ Parses(listing[i]) /\ ~Parses(listing[j])

\* C19: any two distinct units of one batch have distinct storage files
\* (the input file's base name followed by "_infobox.duckdb"), so no two
\* tasks of the batch write to the same storage file.
C19_DistinctTargets ==
    FilesSettled =>
        \A i, j \in 1..Len(all_files) :
            i # j => db_filename(all_files[i]) # db_filename(all_files[j])

\* Two units with the same part number are dispatched, that of
\* wikipedia_en_part_0.parquet and that of wikipedia_en_part_x.parquet
C19_Witness ==
    /\ FilesSettled
    /\ \E i, j \in 1..Len(all_files) :
          /\ all_files[i] = <<"0">> /\ all_files[j] = <<"x">>
          /\ db_filename(all_files[j]) =
                <<"w", "i", "k", "i", "p", "e", "d", "i", "a", "_", "e", "n", "_",
                  "p", "a", "r", "t", "_", "x", "_", "i", "n", "f", "o", "b", "o",
                  "x", ".", "d", "u", "c", "k", "d", "b">>

(***************************************************************************)
(* Claims about the job runner (SpecJob).                                  *)
(***************************************************************************)
\* C2: run_chunk_extractor returns success = false with a non-empty message
\* whenever the processing of the file ended in file-not-found, malformed
\* input, a storage-write failure or the timeout, and success = true only
\* when the file was read and every matching record was processed without a
\* fault.
C2_FaultsReported ==
    job_outcome.returned =>
        /\ fault \in {"file_not_found", "malformed", "storage_write", "timeout"}
              => (~job_outcome.success /\ job_outcome.msg # "")
        /\ job_outcome.success
              => (/\ job_unit.input = "ok"
                  /\ fault = "none"
                  /\ processed = job_unit.records)

(***************************************************************************)
(* Claims about the batch (SpecBatch).                                     *)
(***************************************************************************)
AllCollected == \A u \in Units : received[u] = 1

\* The collecting loop has run to its end: the summary is next, or the
\* process has exited from it
Finalized ==
    \/ batch_pc = "summary"
    \/ batch_pc = "exited" /\ exit_status.cause \notin {"progress_error", "interrupt"}

\* C3: whatever the units' results (success, non-zero exit, timeout, an
\* exception of the job runner), the collecting loop receives at most one
\* outcome per unit and is never left because of a unit's outcome, and when
\* the batch is Finalized it has received exactly one outcome per submitted
\* unit and successful + failed = N.
C3_FailureIsolation ==
    /\ \A u \in Units : received[u] <= 1
    /\ batch_pc = "shutdown" => progress.raised
    /\ Finalized => (AllCollected /\ successful + failed = n_units)

C3_Witness ==
    /\ Finalized
    /\ n_units >= 3
    /\ failed >= 2
    /\ successful >= 1

\* C4: at a progress checkpoint where the elapsed time is exactly zero the
\* ETA is reported as zero, no division fault is raised, and the batch goes
\* on collecting.
C4_ZeroElapsedEta ==
    (progress.shown /\ progress.elapsed = 0) =>
        /\ ~progress.raised
        /\ progress.eta_num = 0
        /\ batch_pc # "shutdown"

\* C10: once every outcome has been collected, the process exits with a
\* non-zero status if and only if failed > 0; with every unit successful it
\* exits with 0, whatever the elapsed time.
C10_ExitStatus ==
    (batch_pc = "exited" /\ AllCollected) =>
        (exit_status.code # 0 <=> failed > 0)

\* The status with which the process exits when some units failed
FailedUnitsStatus == summary_exit(1, 1).code

\* C11: once an external interrupt has arrived during Dispatching or
\* Collecting, no unit is started, no outcome is recorded or counted, and
\* the process exits with a non-zero status that differs from the status
\* used for 'some units failed'.
C11_InterruptStops ==
    [][batch_pc = "interrupted" =>
          /\ running' \subseteq running
          /\ UNCHANGED <<received, successful, failed>>
          /\ batch_pc' = "exited" =>
                exit_status'.code \notin {0, FailedUnitsStatus}]_vars

\* The units the executor has taken from its queue
Started == 1..(next_submit - 1 - Len(work_queue))

\* C15: the units are submitted once each, in the order of the filtered
\* list (the queue holds the last submitted units in ascending order, the
\* units before them have been started, and a unit that has returned is
\* neither queued nor running); all of them have been submitted once the
\* loop collects; and at most `parallelism` units are running at a time.
C15_OrderedBoundedDispatch ==
    /\ next_submit \in 1..(n_units + 1)
    /\ batch_pc \in {"collecting", "shutdown", "summary"} => next_submit = n_units + 1
    /\ \A i \in 1..Len(work_queue) :
          work_queue[i] = next_submit - 1 - Len(work_queue) + i
    /\ running \subseteq Started
    /\ \A u \in Units :
          (results[u].returned \/ received[u] > 0) => (u \in Started /\ u \notin running)
    /\ Cardinality(running) <= parallelism

\* The outcome of unit 2 is collected before unit 1 has returned, with as
\* many units running as there are workers
C15_Witness ==
    /\ batch_pc = "collecting"
    /\ parallelism = 2
    /\ running = {1, 3}
    /\ received[2] = 1
    /\ received[1] = 0

RECURSIVE SumTo(_, _)
SumTo(f, n) == IF n = 0 THEN 0 ELSE f[n] + SumTo(f, n - 1)

\* The number of outcomes collected so far
NumCollected == SumTo(received, n_units)

\* C17: in every reachable state successful + failed is the number of
\* outcomes collected, which is at most the number of submitted units; in
\* every step no counter decreases, and a collected outcome adds one to
\* exactly one of the counters.
C17_CountersExact ==
    /\ [](/\ successful + failed = NumCollected
          /\ NumCollected <= next_submit - 1)
    /\ [][/\ successful' >= successful
          /\ failed' >= failed
          /\ IF received' # received
             THEN \/ successful' = successful + 1 /\ failed' = failed
                  \/ successful' = successful /\ failed' = failed + 1
             ELSE successful' = successful /\ failed' = failed]_vars

\* Outcomes of both kinds have been counted and another one waits to be
\* collected
C17_Witness ==
    /\ batch_pc = "collecting"
    /\ successful >= 1
    /\ failed >= 1
    /\ Uncollected # {}

\* C20: without an external interrupt, a batch that has come to its end has
\* reached Finalized, every outcome having been collected.
C20_EndsFinalized ==
    batch_pc = "exited" => (Finalized /\ AllCollected)

\* Termination under fair scheduling: the process exits.
BatchExits == <>(batch_pc = "exited")
====
